---- MODULE Spec2Model ----
(***************************************************************************)
(* A model of assets/merge_pdf.py: convert_image_to_pdf (the placement     *)
(* geometry of one image on one page) and merge_all_to_pdf (the folder     *)
(* merge with its temporary files and its try/except/finally).             *)
(*                                                                         *)
(* Two specifications share the module:                                    *)
(*   Spec      one run of merge_all_to_pdf over a small file system;       *)
(*   ConvSpec  one call of convert_image_to_pdf on one image and page.     *)
(***************************************************************************)
EXTENDS Integers, Sequences, FiniteSets, TLC

VARIABLES
    \* ---- merge_all_to_pdf ----
    input_folder,   \* the directory passed as input_folder: "cwd" or "in"
    folder_exists,  \* whether os.listdir(input_folder) can list it
    fs,             \* the file system: path -> content
    fs0,            \* the file system as it was when the run started
    pc,             \* position in merge_all_to_pdf
    listing,        \* sorted(os.listdir(input_folder))
    i,              \* index of the for loop in listing
    merger,         \* the pages PdfMerger has accumulated
    temp_files,     \* the list temp_files
    j,              \* index of the cleanup loop in temp_files
    error,          \* the exception caught by "except Exception as e"
    log,            \* what print() has written
    result,         \* what the call returned ("" while running)
    appendCalls,    \* paths merger.append was called with
    convertCalls,   \* paths convert_image_to_pdf was called with
    created,        \* paths convert_image_to_pdf created on disk
    removeTried,    \* paths os.remove was called with
    removeFailed,   \* paths os.remove raised on
    failedAt,       \* the entry whose processing raised ("" if none)
    \* ---- convert_image_to_pdf ----
    cpc,            \* position in convert_image_to_pdf
    page_size,      \* <<page_width, page_height>>
    img_size,       \* <<img.width, img.height>> of the opened image
    fit_to_page,
    maintain_aspect_ratio,
    resize_ratio,   \* the float resize_ratio, as a rational with its rounding
    new_size,       \* <<new_width, new_height>>
    pos,            \* <<x_pos, y_pos>>, each a rational
    block           \* what drawImage placed: [x, y, width, height]

mvars == <<input_folder, folder_exists, fs, fs0, pc, listing, i, merger,
           temp_files, j, error, log, result, appendCalls, convertCalls,
           created, removeTried, removeFailed, failedAt>>
cvars == <<cpc, page_size, img_size, fit_to_page, maintain_aspect_ratio,
           resize_ratio, new_size, pos, block>>
vars == <<mvars, cvars>>

(***************************************************************************)
(* Bounds of the model.                                                    *)
(***************************************************************************)
\* at most this many entries in the input folder
MaxEntries == 3
\* page dimensions range over 2*Margin-1 .. 2*Margin+MaxAvail
MaxAvail == 5
\* image dimensions range over 1 .. MaxImg
MaxImg == 4

(***************************************************************************)
(* Strings: str.lower(), str.endswith(), and the order sorted() uses.      *)
(***************************************************************************)
CharAt(s, k) == SubSeq(s, k, k)

\* the characters of the model's file names, in code point order
Alphabet == ".ABCDEFGHIJKLMNOPQRSTUVWXYZ_abcdefghijklmnopqrstuvwxyz"

Uppers == "ABCDEFGHIJKLMNOPQRSTUVWXYZ"

Lowers == "abcdefghijklmnopqrstuvwxyz"

\* the rank of a character in code point order
Ord ==
    [c \in {CharAt(Alphabet, k) : k \in 1..Len(Alphabet)} |->
        CHOOSE k \in 1..Len(Alphabet) : CharAt(Alphabet, k) = c]

LowerOfUpper ==
    [c \in {CharAt(Uppers, k) : k \in 1..Len(Uppers)} |->
        CharAt(Lowers, CHOOSE k \in 1..Len(Uppers) : CharAt(Uppers, k) = c)]

\* one character of str.lower(): 'A'..'Z' map to 'a'..'z', the rest stay
LowerChar(c) == IF c \in DOMAIN LowerOfUpper THEN LowerOfUpper[c] ELSE c

RECURSIVE Lower(_)
Lower(s) ==
    IF Len(s) = 0 THEN s
    ELSE LowerChar(CharAt(s, 1)) \o Lower(SubSeq(s, 2, Len(s)))

EndsWith(s, suffix) ==
    /\ Len(suffix) <= Len(s)
    /\ SubSeq(s, Len(s) - Len(suffix) + 1, Len(s)) = suffix

\* a < b as Python compares str: by code point, a proper prefix first
RECURSIVE StrLess(_, _)
StrLess(a, b) ==
    IF Len(b) = 0 THEN FALSE
    ELSE IF Len(a) = 0 THEN TRUE
    ELSE IF CharAt(a, 1) = CharAt(b, 1)
         THEN StrLess(SubSeq(a, 2, Len(a)), SubSeq(b, 2, Len(b)))
         ELSE Ord[CharAt(a, 1)] < Ord[CharAt(b, 1)]

\* sorted(S): the ascending sequence of the elements of S
Sorted(S) ==
    CHOOSE s \in [1..Cardinality(S) -> S] :
        \A a, b \in 1..Cardinality(S) : a < b => StrLess(s[a], s[b])

(***************************************************************************)
(* Classification of an entry by its file name (lines 94, 101, 104).       *)
(***************************************************************************)
image_extensions == <<".jpg", ".jpeg", ".png", ".gif", ".bmp", ".tiff">>

HasImageExtension(name) ==
    \E k \in 1..Len(image_extensions) : EndsWith(name, image_extensions[k])

\* the same tests without .lower(): a case-sensitive slip
ClassifyCaseSensitive(filename) ==
    IF EndsWith(filename, ".pdf") THEN "Document"
    ELSE IF HasImageExtension(filename) THEN "Image"
    ELSE "Ignored"

\* the if / elif chain of the loop body on filename.lower(): the first
\* matching branch wins
Classify(filename) ==
    LET lowered == Lower(filename) IN
    IF EndsWith(lowered, ".pdf") THEN "Document"
    ELSE IF HasImageExtension(lowered) THEN "Image"
    ELSE "Ignored"

(***************************************************************************)
(* The file system of a run.  A path is <<directory, name>>; "cwd" is the  *)
(* process's working directory, "in" a folder that is not the working      *)
(* directory.  A page is [src, idx]: page idx of the document first stored *)
(* under the name src, or idx 0 for the single page made from image src.   *)
(***************************************************************************)
Dirs == {"cwd", "in"}

\* the entry names a folder may hold
Names == {"a.png", "B.PDF", "c.txt", "d.Jpeg", "e.tif", "temp_a.png.pdf"}

\* what an entry may be: a directory, a two-page PDF, a decodable image, or
\* a file that is neither a readable PDF nor an image that converts
FileKinds == {"dir", "pdf", "img", "bad"}

\* line 106: temp_pdf = f"temp_{filename}.pdf", a path relative to the cwd
TempName(filename) == "temp_" \o filename \o ".pdf"

TempPath(filename) == <<"cwd", TempName(filename)>>

\* line 99: os.path.join(input_folder, filename)
Join(folder, filename) == <<folder, filename>>

\* the output_pdf argument: a path of the cwd that names no entry
OutputPdf == <<"cwd", "merged.pdf">>

AllNames == Names \cup {TempName(n) : n \in Names} \cup {OutputPdf[2]}

Paths == Dirs \X AllNames

NoFile == [kind |-> "none", pages |-> <<>>]

Content(name, kind) ==
    IF kind = "pdf"
    THEN [kind |-> "pdf",
          pages |-> <<[src |-> name, idx |-> 1], [src |-> name, idx |-> 2]>>]
    ELSE [kind |-> kind, pages |-> <<>>]

\* the one-page document convert_image_to_pdf writes for an image
ConvertedPage(filename) ==
    [kind |-> "pdf", pages |-> <<[src |-> filename, idx |-> 0]>>]

\* os.listdir: the names of the entries of a folder
Entries(files, folder) ==
    {n \in AllNames : files[<<folder, n>>].kind # "none"}

(***************************************************************************)
(* merge_all_to_pdf: the state before the call.                            *)
(***************************************************************************)
ConvIdle ==
    /\ cpc = "idle"
    /\ page_size = <<0, 0>>
    /\ img_size = <<0, 0>>
    /\ fit_to_page = TRUE
    /\ maintain_aspect_ratio = TRUE
    /\ resize_ratio = [num |-> 0, den |-> 1, err |-> 0]
    /\ new_size = <<0, 0>>
    /\ pos = <<[num |-> 0, den |-> 1], [num |-> 0, den |-> 1]>>
    /\ block = [drawn |-> FALSE]

MergeInit ==
    /\ input_folder \in Dirs
    /\ folder_exists \in BOOLEAN
    /\ input_folder = "cwd" => folder_exists
    /\ \E names \in SUBSET Names :
         /\ Cardinality(names) <= MaxEntries
         /\ ~folder_exists => names = {}
         /\ \E kinds \in [names -> FileKinds], stale \in BOOLEAN :
              \* stale: a temp_a.png.pdf left in the cwd by something else
              /\ stale => input_folder = "in"
              /\ fs0 = [p \in Paths |->
                         IF p[1] = input_folder /\ p[2] \in names
                         THEN Content(p[2], kinds[p[2]])
                         ELSE IF stale /\ p = TempPath("a.png")
                         THEN Content("stale", "pdf")
                         ELSE NoFile]
    /\ fs = fs0
    /\ pc = "start"
    /\ listing = <<>>
    /\ i = 1
    /\ merger = <<>>
    /\ temp_files = <<>>
    /\ j = 1
    /\ error = ""
    /\ log = <<>>
    /\ result = ""
    /\ appendCalls = {}
    /\ convertCalls = {}
    /\ created = {}
    /\ removeTried = {}
    /\ removeFailed = {}
    /\ failedAt = ""
    /\ ConvIdle

(***************************************************************************)
(* merge_all_to_pdf: the steps of the call.                                *)
(***************************************************************************)
\* an exception raised inside the try block: control goes to "except"
Raise(e, name) ==
    /\ error' = e
    /\ failedAt' = name
    /\ pc' = "except"

\* line 98: sorted(os.listdir(input_folder))
ListDir ==
    /\ pc = "start"
    /\ IF folder_exists
       THEN /\ listing' = Sorted(Entries(fs, input_folder))
            /\ pc' = "loop"
            /\ UNCHANGED <<error, failedAt>>
       ELSE /\ Raise("ListError", "")
            /\ UNCHANGED listing
    /\ UNCHANGED <<input_folder, folder_exists, fs, fs0, i, merger,
                   temp_files, j, log, result, appendCalls, convertCalls,
                   created, removeTried, removeFailed>>
    /\ UNCHANGED cvars

InLoop == pc = "loop" /\ i <= Len(listing)

\* lines 101-103: a name ending in .pdf is handed to merger.append, which
\* reads the pages of a PDF file and raises on anything else
AppendDocument ==
    /\ InLoop
    /\ Classify(listing[i]) = "Document"
    /\ LET filepath == Join(input_folder, listing[i]) IN
       /\ appendCalls' = appendCalls \cup {filepath}
       /\ IF fs[filepath].kind = "pdf"
          THEN /\ merger' = merger \o fs[filepath].pages
               /\ i' = i + 1
               /\ UNCHANGED <<pc, error, failedAt>>
          ELSE /\ Raise("AppendError", listing[i])
               /\ UNCHANGED <<merger, i>>
    /\ UNCHANGED <<input_folder, folder_exists, fs, fs0, listing,
                   temp_files, j, log, result, convertCalls, created,
                   removeTried, removeFailed>>
    /\ UNCHANGED cvars

IsImageEntry == InLoop /\ Classify(listing[i]) = "Image"

\* line 25: Image.open raises on a directory and on a file that is no image;
\* "bad" also stands for an image that raises later, before line 83
ConvertDecodeError ==
    /\ IsImageEntry
    /\ fs[Join(input_folder, listing[i])].kind # "img"
    /\ convertCalls' = convertCalls \cup {Join(input_folder, listing[i])}
    /\ Raise("DecodeError", listing[i])
    /\ UNCHANGED <<input_folder, folder_exists, fs, fs0, listing, i, merger,
                   temp_files, j, log, result, appendCalls, created,
                   removeTried, removeFailed>>
    /\ UNCHANGED cvars

\* line 83: open(output_pdf_path, 'wb') raises and creates nothing (always
\* so when the path is a directory)
ConvertOpenError ==
    /\ IsImageEntry
    /\ fs[Join(input_folder, listing[i])].kind = "img"
    /\ convertCalls' = convertCalls \cup {Join(input_folder, listing[i])}
    /\ Raise("WriteError", listing[i])
    /\ UNCHANGED <<input_folder, folder_exists, fs, fs0, listing, i, merger,
                   temp_files, j, log, result, appendCalls, created,
                   removeTried, removeFailed>>
    /\ UNCHANGED cvars

\* lines 83-84: open() created (or truncated) the file and f.write raised
ConvertWriteError ==
    /\ IsImageEntry
    /\ fs[Join(input_folder, listing[i])].kind = "img"
    /\ fs[TempPath(listing[i])].kind # "dir"
    /\ convertCalls' = convertCalls \cup {Join(input_folder, listing[i])}
    /\ fs' = [fs EXCEPT ![TempPath(listing[i])] = Content(listing[i], "bad")]
    /\ created' = created \cup {TempPath(listing[i])}
    /\ Raise("WriteError", listing[i])
    /\ UNCHANGED <<input_folder, folder_exists, fs0, listing, i, merger,
                   temp_files, j, log, result, appendCalls, removeTried, removeFailed>>
    /\ UNCHANGED cvars

\* lines 106-114: the image is converted and the temporary PDF written
ConvertOk ==
    /\ IsImageEntry
    /\ fs[Join(input_folder, listing[i])].kind = "img"
    /\ fs[TempPath(listing[i])].kind # "dir"
    /\ convertCalls' = convertCalls \cup {Join(input_folder, listing[i])}
    /\ fs' = [fs EXCEPT ![TempPath(listing[i])] = ConvertedPage(listing[i])]
    /\ created' = created \cup {TempPath(listing[i])}
    /\ pc' = "append_temp"
    /\ UNCHANGED <<input_folder, folder_exists, fs0, listing, i, merger,
                   temp_files, j, error, log, result, appendCalls,
                   removeTried, removeFailed, failedAt>>
    /\ UNCHANGED cvars

\* lines 115-116: merger.append(temp_pdf), then temp_files.append(temp_pdf)
AppendTempOk ==
    /\ pc = "append_temp"
    /\ LET temp_pdf == TempPath(listing[i]) IN
       /\ appendCalls' = appendCalls \cup {temp_pdf}
       /\ merger' = merger \o fs[temp_pdf].pages
       /\ temp_files' = Append(temp_files, temp_pdf)
    /\ i' = i + 1
    /\ pc' = "loop"
    /\ UNCHANGED <<input_folder, folder_exists, fs, fs0, listing, j, error,
                   log, result, convertCalls, created, removeTried, removeFailed, failedAt>>
    /\ UNCHANGED cvars

\* line 115 raises (the file cannot be read back): line 116 is not reached
AppendTempError ==
    /\ pc = "append_temp"
    /\ appendCalls' = appendCalls \cup {TempPath(listing[i])}
    /\ Raise("AppendError", listing[i])
    /\ UNCHANGED <<input_folder, folder_exists, fs, fs0, listing, i, merger,
                   temp_files, j, log, result, convertCalls, created,
                   removeTried, removeFailed>>
    /\ UNCHANGED cvars

\* neither branch of the if / elif matches: the entry is not touched
SkipEntry ==
    /\ InLoop
    /\ Classify(listing[i]) = "Ignored"
    /\ i' = i + 1
    /\ UNCHANGED <<input_folder, folder_exists, fs, fs0, pc, listing, merger,
                   temp_files, j, error, log, result, appendCalls,
                   convertCalls, created, removeTried, removeFailed, failedAt>>
    /\ UNCHANGED cvars

\* lines 119-120: merger.write(output_pdf) and the success message
WriteOk ==
    /\ pc = "loop"
    /\ i > Len(listing)
    /\ fs' = [fs EXCEPT ![OutputPdf] = [kind |-> "pdf", pages |-> merger]]
    /\ log' = Append(log, <<"Successfully created merged PDF", OutputPdf[2]>>)
    /\ pc' = "finally"
    /\ UNCHANGED <<input_folder, folder_exists, fs0, listing, i, merger,
                   temp_files, j, error, result, appendCalls, convertCalls,
                   created, removeTried, removeFailed, failedAt>>
    /\ UNCHANGED cvars

\* line 119 raises: nothing is written, or a partial file is left behind
WriteError ==
    /\ pc = "loop"
    /\ i > Len(listing)
    /\ \/ UNCHANGED fs
       \/ fs' = [fs EXCEPT ![OutputPdf] = Content(OutputPdf[2], "bad")]
    /\ Raise("WriteError", "")
    /\ UNCHANGED <<input_folder, folder_exists, fs0, listing, i, merger,
                   temp_files, j, log, result, appendCalls, convertCalls,
                   created, removeTried, removeFailed>>
    /\ UNCHANGED cvars

\* the handler without its print
ExceptHandlerSilent ==
    /\ pc = "except"
    /\ pc' = "finally"
    /\ UNCHANGED <<input_folder, folder_exists, fs, fs0, listing, i, merger,
                   temp_files, j, error, log, result, appendCalls,
                   convertCalls, created, removeTried, removeFailed, failedAt>>
    /\ UNCHANGED cvars

\* lines 122-123: except Exception as e: print(f"Error occurred: {str(e)}")
ExceptHandler ==
    /\ pc = "except"
    /\ log' = Append(log, <<"Error occurred", error>>)
    /\ pc' = "finally"
    /\ UNCHANGED <<input_folder, folder_exists, fs, fs0, listing, i, merger,
                   temp_files, j, error, result, appendCalls, convertCalls,
                   created, removeTried, removeFailed, failedAt>>
    /\ UNCHANGED cvars

InCleanup == pc = "finally" /\ j <= Len(temp_files)

\* a cleanup loop that forgets the os.remove call
RemoveSkipped ==
    /\ InCleanup
    /\ removeTried' = removeTried \cup {temp_files[j]}
    /\ j' = j + 1
    /\ UNCHANGED <<input_folder, folder_exists, fs, fs0, pc, listing, i,
                   merger, temp_files, error, log, result, appendCalls,
                   convertCalls, created, removeFailed, failedAt>>
    /\ UNCHANGED cvars

\* lines 127-129: os.remove(temp_file) removes the file
RemoveOk ==
    /\ InCleanup
    /\ removeTried' = removeTried \cup {temp_files[j]}
    /\ fs' = [fs EXCEPT ![temp_files[j]] = NoFile]
    /\ j' = j + 1
    /\ UNCHANGED removeFailed
    /\ UNCHANGED <<input_folder, folder_exists, fs0, pc, listing, i, merger,
                   temp_files, error, log, result, appendCalls, convertCalls,
                   created, failedAt>>
    /\ UNCHANGED cvars

\* lines 128-131: os.remove raises and "except: pass" swallows it
RemoveError ==
    /\ InCleanup
    /\ removeTried' = removeTried \cup {temp_files[j]}
    /\ removeFailed' = removeFailed \cup {temp_files[j]}
    /\ j' = j + 1
    /\ UNCHANGED <<input_folder, folder_exists, fs, fs0, pc, listing, i,
                   merger, temp_files, error, log, result, appendCalls,
                   convertCalls, created, failedAt>>
    /\ UNCHANGED cvars

\* the end of the finally block: the function falls off its end
Return ==
    /\ pc = "finally"
    /\ j > Len(temp_files)
    /\ pc' = "done"
    /\ result' = "None"
    /\ UNCHANGED <<input_folder, folder_exists, fs, fs0, listing, i, merger,
                   temp_files, j, error, log, appendCalls, convertCalls,
                   created, removeTried, removeFailed, failedAt>>
    /\ UNCHANGED cvars

Next ==
    \/ ListDir
    \/ AppendDocument
    \/ ConvertDecodeError
    \/ ConvertOpenError
    \/ ConvertWriteError
    \/ ConvertOk
    \/ AppendTempOk
    \/ AppendTempError
    \/ SkipEntry
    \/ WriteOk
    \/ WriteError
    \/ ExceptHandler
    \/ RemoveOk
    \/ RemoveError
    \/ Return

Init == MergeInit

Spec == Init /\ [][Next]_vars

(***************************************************************************)
(* convert_image_to_pdf: the placement geometry (lines 32-62, 76-78).      *)
(*                                                                         *)
(* Page and image dimensions are integers here.  The code divides and      *)
(* multiplies in binary floating point: a ratio is kept as the exact       *)
(* rational num/den plus err, the direction in which the float quotient    *)
(* was rounded (-1 towards zero, 0 exact, 1 away from zero), and the       *)
(* rounding of a product that lands next to an integer is a free choice.   *)
(* Positions are rationals num/den.                                        *)
(***************************************************************************)
\* line 37: margin = 20
Margin == 20

PageDims == (2 * Margin - 1)..(2 * Margin + MaxAvail)

ImgDims == 1..MaxImg

\* a page dimension less one margin only
AvailableOneMargin(dim) == dim - Margin

\* lines 38-39: available_width = page_width - 2 * margin
Available(dim) == dim - 2 * Margin

Abs(x) == IF x < 0 THEN -x ELSE x

Sgn(x) == IF x < 0 THEN -1 ELSE IF x > 0 THEN 1 ELSE 0

\* whether num/den is a binary fraction, so that the float division is exact
Representable(num, den) ==
    \E k \in 1..den : /\ \E e \in 0..den : k = 2^e
                      /\ (Abs(num) * k) % den = 0

\* lines 42-43: width_ratio = available_width / img.width
Ratio(avail, dim, err) == [num |-> avail, den |-> dim, err |-> err]

\* the rounding directions the float division avail / dim can have
RoundingsOf(avail, dim) ==
    IF Representable(avail, dim) THEN {0} ELSE {-1, 1}

RatioLess(a, b) == a.num * b.den < b.num * a.den

\* the larger of the two ratios
MaxRatio(a, b) == IF RatioLess(a, b) THEN b ELSE a

\* line 46: min(width_ratio, height_ratio); equal floats give the first
MinRatio(a, b) == IF RatioLess(b, a) THEN b ELSE a

\* lines 47-48: int(x * r), truncating towards zero.  When x * num / den is
\* an integer K and r was rounded towards zero, the float product is K or
\* the float just inside it, so the result is K (up) or K - 1
IntOfProduct(x, r, up) ==
    LET p == Abs(x * r.num)
        q == p \div r.den
        m == IF p % r.den = 0 /\ q > 0 /\ r.err = -1 /\ ~up THEN q - 1 ELSE q
    IN  Sgn(r.num) * m

NoRatio == [num |-> 0, den |-> 1, err |-> 0]

Origin == [num |-> 0, den |-> 1]

MergeIdle ==
    /\ input_folder = "in"
    /\ folder_exists = FALSE
    /\ fs0 = [p \in Paths |-> NoFile]
    /\ fs = fs0
    /\ pc = "idle"
    /\ listing = <<>>
    /\ i = 1
    /\ merger = <<>>
    /\ temp_files = <<>>
    /\ j = 1
    /\ error = ""
    /\ log = <<>>
    /\ result = ""
    /\ appendCalls = {}
    /\ convertCalls = {}
    /\ created = {}
    /\ removeTried = {}
    /\ removeFailed = {}
    /\ failedAt = ""

\* the state after Image.open (lines 25-29): an image of positive size
ConvInit ==
    /\ MergeIdle
    /\ cpc = "open"
    /\ page_size \in PageDims \X PageDims
    /\ img_size \in ImgDims \X ImgDims
    /\ fit_to_page \in BOOLEAN
    /\ maintain_aspect_ratio \in BOOLEAN
    /\ resize_ratio = NoRatio
    /\ new_size = <<0, 0>>
    /\ pos = <<Origin, Origin>>
    /\ block = [drawn |-> FALSE]

\* lines 32-51 and 59-62: the target dimensions
ComputeSize ==
    /\ cpc = "open"
    /\ IF fit_to_page
       THEN LET available_width == Available(page_size[1])
                available_height == Available(page_size[2])
            IN  \E ew \in RoundingsOf(available_width, img_size[1]),
                   eh \in RoundingsOf(available_height, img_size[2]),
                   upw \in BOOLEAN, uph \in BOOLEAN :
                  LET width_ratio == Ratio(available_width, img_size[1], ew)
                      height_ratio == Ratio(available_height, img_size[2], eh)
                      r == MinRatio(width_ratio, height_ratio)
                  IN  /\ IF maintain_aspect_ratio
                         THEN /\ resize_ratio' = r
                              /\ new_size' = <<IntOfProduct(img_size[1], r, upw),
                                               IntOfProduct(img_size[2], r, uph)>>
                         ELSE /\ resize_ratio' = NoRatio
                              /\ new_size' = <<available_width,
                                               available_height>>
                      /\ cpc' = "sized"
                      /\ UNCHANGED pos
       ELSE /\ new_size' = img_size
            /\ pos' = <<Origin, Origin>>
            /\ resize_ratio' = NoRatio
            /\ cpc' = "placed"
    /\ UNCHANGED <<page_size, img_size, fit_to_page, maintain_aspect_ratio,
                   block>>
    /\ UNCHANGED mvars

\* lines 54-58: img.resize succeeds on a size of at least 1 x 1, and the
\* position centres the block on the page
ResizeOk ==
    /\ cpc = "sized"
    /\ new_size[1] >= 1
    /\ new_size[2] >= 1
    /\ pos' = <<[num |-> page_size[1] - new_size[1], den |-> 2],
                [num |-> page_size[2] - new_size[2], den |-> 2]>>
    /\ cpc' = "placed"
    /\ UNCHANGED <<page_size, img_size, fit_to_page, maintain_aspect_ratio,
                   resize_ratio, new_size, block>>
    /\ UNCHANGED mvars

\* line 54: img.resize raises on a zero or negative dimension; nothing is
\* drawn and no file is written
ResizeError ==
    /\ cpc = "sized"
    /\ (new_size[1] < 1 \/ new_size[2] < 1)
    /\ cpc' = "failed"
    /\ UNCHANGED <<page_size, img_size, fit_to_page, maintain_aspect_ratio,
                   resize_ratio, new_size, pos, block>>
    /\ UNCHANGED mvars

\* lines 64-84: the image, which has the size new_size, is drawn at
\* (x_pos, y_pos) in a box of that same size, so preserveAspectRatio
\* changes nothing
DrawImage ==
    /\ cpc = "placed"
    /\ block' = [drawn |-> TRUE, x |-> pos[1], y |-> pos[2],
                 width |-> new_size[1], height |-> new_size[2]]
    /\ cpc' = "done"
    /\ UNCHANGED <<page_size, img_size, fit_to_page, maintain_aspect_ratio,
                   resize_ratio, new_size, pos>>
    /\ UNCHANGED mvars

ConvNext ==
    \/ ComputeSize
    \/ ResizeOk
    \/ ResizeError
    \/ DrawImage

ConvSpec == ConvInit /\ [][ConvNext]_vars

(***************************************************************************)
(* What the specification expects of a run, stated without the code's      *)
(* string tests: the kind of every name of the model, and the pages a      *)
(* folder should produce.                                                  *)
(***************************************************************************)
ExpectedKind(n) ==
    CASE n = "a.png" -> "Image"
      [] n = "B.PDF" -> "Document"
      [] n = "c.txt" -> "Ignored"
      [] n = "d.Jpeg" -> "Image"
      [] n = "e.tif" -> "Ignored"
      [] n = "temp_a.png.pdf" -> "Document"

InputPath(n) == <<input_folder, n>>

\* the entries of the input folder when the run started
InputEntries == {n \in Names : fs0[InputPath(n)].kind # "none"}

\* what one entry should contribute: a document its own pages, an image
\* its one converted page, anything else nothing
Contribution(n) ==
    IF ExpectedKind(n) = "Document" THEN fs0[InputPath(n)].pages
    ELSE IF ExpectedKind(n) = "Image" THEN <<[src |-> n, idx |-> 0]>>
    ELSE <<>>

RECURSIVE ConcatContributions(_, _)
ConcatContributions(names, k) ==
    IF k > Len(names) THEN <<>>
    ELSE Contribution(names[k]) \o ConcatContributions(names, k + 1)

ExpectedPages == ConcatContributions(Sorted(InputEntries), 1)

Succeeded == pc = "done" /\ error = ""

Failed == pc = "done" /\ error # ""

Range(f) == {f[k] : k \in DOMAIN f}

\* the entries the loop has finished with, and the one that raised
Processed == {listing[k] : k \in 1..(i - 1)}

(***************************************************************************)
(* C1.  After any run, successful or failed, no temporary file that        *)
(* convert_image_to_pdf created during the run is left on disk.            *)
(* Violated: a temporary file whose merger.append raises (or whose write   *)
(* raised half way) was never recorded in temp_files, and stays.           *)
(***************************************************************************)
C1_NoTempFileRemains ==
    pc = "done" => \A p \in created : fs[p].kind = "none"

(***************************************************************************)
(* C2 as stated.  A failed run is caught and logged, cleans up, and        *)
(* returns a MergeError that carries the cause.                            *)
(***************************************************************************)
C2_ReturnsMergeError ==
    Failed =>
        /\ result = "MergeError"
        /\ log = <<<<"Error occurred", error>>>>
        /\ removeTried = Range(temp_files)

(***************************************************************************)
(* C2 as amended.  A failed run is caught, its cause is printed as the     *)
(* only message, os.remove has been called on every recorded temporary     *)
(* file, and the call returns normally with None, the value a successful   *)
(* run returns too; no exception leaves the function.                      *)
(***************************************************************************)
C2_FailureLoggedAndCleaned ==
    /\ (error # "" /\ pc \in {"finally", "done"}) =>
         log = <<<<"Error occurred", error>>>>
    /\ Failed =>
         /\ result = "None"
         /\ removeTried = Range(temp_files)
    /\ Succeeded => result = "None"

C2_Witness ==
    /\ Failed
    /\ error = "AppendError"
    /\ Len(temp_files) >= 1
    /\ removeTried = Range(temp_files)

(***************************************************************************)
(* C3.  On a successful run the pages written to the output are the        *)
(* concatenation, in ascending order of the entry names, of every          *)
(* document's own pages and every image's one converted page.              *)
(* Violated when the folder is the working directory and holds both        *)
(* a.png and temp_a.png.pdf: the document is overwritten before it is      *)
(* read, so the image's page appears twice (see C10).                      *)
(***************************************************************************)
C3_PagesInListingOrder ==
    Succeeded => fs[OutputPdf].pages = ExpectedPages

(***************************************************************************)
(* C4.  On a successful run the output has as many pages as the documents  *)
(* of the folder have together, plus one per image; an empty folder gives  *)
(* an output of zero pages.                                                *)
(***************************************************************************)
C4_PageCount ==
    Succeeded =>
        /\ fs[OutputPdf].kind = "pdf"
        /\ Len(fs[OutputPdf].pages) = Len(ExpectedPages)
        /\ InputEntries = {} => fs[OutputPdf].pages = <<>>

(***************************************************************************)
(* C5.  Every entry is treated as exactly one of Document, Image or        *)
(* Ignored, decided by its lower-cased suffix: a finished Document was     *)
(* handed to merger.append and not to the converter, a finished Image to   *)
(* the converter and not (itself) to merger.append, and an Ignored entry   *)
(* is handed to neither, gets no temporary file, contributes no page and   *)
(* is never the entry that makes the run fail.                             *)
(***************************************************************************)
C5_ClassifiedBySuffix ==
    pc \notin {"start", "idle"} =>
        /\ \A n \in Processed :
             /\ ExpectedKind(n) = "Document" =>
                  /\ InputPath(n) \in appendCalls
                  /\ InputPath(n) \notin convertCalls
             /\ ExpectedKind(n) = "Image" =>
                  /\ InputPath(n) \in convertCalls
                  /\ InputPath(n) \notin appendCalls
        /\ \A n \in Range(listing) :
             ExpectedKind(n) = "Ignored" =>
                  /\ InputPath(n) \notin appendCalls
                  /\ InputPath(n) \notin convertCalls
                  /\ TempPath(n) \notin created
                  /\ failedAt # n
                  /\ \A k \in DOMAIN merger : merger[k].src # n

C5_Witness ==
    /\ Succeeded
    /\ {"B.PDF", "c.txt", "d.Jpeg"} = Range(listing)
    /\ fs0[InputPath("c.txt")].kind = "dir"
    /\ Len(fs[OutputPdf].pages) = 3

(***************************************************************************)
(* C6.  A subdirectory of the input folder, whatever its name, is neither  *)
(* appended nor converted and does not make the run fail.                  *)
(* Violated: the loop never tests for a directory, so one named B.PDF is   *)
(* handed to merger.append, which raises.                                  *)
(***************************************************************************)
C6_SubdirectoriesIgnored ==
    \A n \in Names :
        fs0[InputPath(n)].kind = "dir" =>
            /\ InputPath(n) \notin appendCalls
            /\ InputPath(n) \notin convertCalls
            /\ failedAt # n

\* a run that failed while processing an entry (conversion or append)
FailedOnEntry == Failed /\ failedAt # ""

\* the parts of C7 that do not depend on os.remove succeeding
StoppedAndReported ==
    /\ listing[i] = failedAt
    /\ appendCalls \cup convertCalls \subseteq
           {InputPath(listing[k]) : k \in 1..i} \cup
           {TempPath(listing[k]) : k \in 1..i}
    /\ log = <<<<"Error occurred", error>>>>
    /\ fs[OutputPdf] = fs0[OutputPdf]
    /\ fs[OutputPdf].kind = "none"

\* the temporary files created for the entries before the failing one
TempsBeforeFailure ==
    {TempPath(listing[k]) : k \in 1..(i - 1)} \cap created

(***************************************************************************)
(* C7 as stated.  When conversion or append fails on an entry, processing  *)
(* stops, the failure is reported, the output is never written, and every  *)
(* temporary file created for an earlier entry is removed.                 *)
(***************************************************************************)
C7_AllOrNothingRemoved ==
    FailedOnEntry =>
        /\ StoppedAndReported
        /\ \A p \in TempsBeforeFailure : fs[p].kind = "none"

(***************************************************************************)
(* C7 as amended.  When conversion or append fails on an entry,            *)
(* processing stops, the failure is reported, the output is never          *)
(* written, and os.remove is called on every temporary file created for    *)
(* an earlier entry; the file is gone unless that os.remove itself raised, *)
(* which the cleanup swallows.                                             *)
(***************************************************************************)
C7_AllOrNothingBestEffort ==
    FailedOnEntry =>
        /\ StoppedAndReported
        /\ \A p \in TempsBeforeFailure :
             /\ p \in removeTried
             /\ p \notin removeFailed => fs[p].kind = "none"

C7_Witness ==
    /\ FailedOnEntry
    /\ i = 3
    /\ Cardinality(TempsBeforeFailure) = 2
    /\ \A p \in TempsBeforeFailure : fs[p].kind = "none"

WithinOneUnit(n, x, r) ==
    LET diff == n * r.den - x * r.num
        dir == r.err * Sgn(r.num)
    IN  /\ (diff < r.den \/ (diff = r.den /\ dir = 1))
        /\ (diff > -r.den \/ (diff = -r.den /\ dir = -1))

SameRatio(a, b) == a.num * b.den = b.num * a.den

(***************************************************************************)
(* C9.  With fit_to_page and maintain_aspect_ratio, both dimensions are    *)
(* scaled by the one factor r = min(available width / image width,         *)
(* available height / image height) and truncated: new width and new       *)
(* height each differ from image width * r and image height * r by less    *)
(* than one unit.                                                          *)
(***************************************************************************)
C9_UniformScaleTruncated ==
    (cpc \in {"sized", "placed", "failed", "done"}
        /\ fit_to_page /\ maintain_aspect_ratio) =>
        LET wr == Ratio(page_size[1] - 2 * Margin, img_size[1], 0)
            hr == Ratio(page_size[2] - 2 * Margin, img_size[2], 0)
        IN  /\ SameRatio(resize_ratio, wr) \/ SameRatio(resize_ratio, hr)
            /\ ~RatioLess(wr, resize_ratio)
            /\ ~RatioLess(hr, resize_ratio)
            /\ WithinOneUnit(new_size[1], img_size[1], resize_ratio)
            /\ WithinOneUnit(new_size[2], img_size[2], resize_ratio)

\* a 3 x 3 image on a 2 x 2 area: r = 2/3 is no binary fraction, and the
\* float product 3 * r fell just short of 2 for the width only
C9_Witness ==
    /\ cpc = "done"
    /\ fit_to_page
    /\ maintain_aspect_ratio
    /\ img_size = <<3, 3>>
    /\ page_size = <<2 * Margin + 2, 2 * Margin + 2>>
    /\ new_size = <<1, 2>>
    /\ resize_ratio.err = -1

(***************************************************************************)
(* C10.  A run changes no file that existed before it, other than the      *)
(* output: every temporary path it writes and removes is distinct from     *)
(* every existing file, so the input entries are left unchanged.           *)
(* Violated: temp_<filename>.pdf is a fixed name in the working directory; *)
(* a file of that name (an entry, when the folder is the working           *)
(* directory) is overwritten and then deleted.                             *)
(***************************************************************************)
C10_ExistingFilesUnchanged ==
    \A p \in Paths :
        (fs0[p].kind # "none" /\ p # OutputPdf) =>
            /\ fs[p] = fs0[p]
            /\ p \notin created

====
